---- MODULE Spec2Model ----
(***************************************************************************)
(* Verification model of the PowersBioStrikes web repository:              *)
(*   - js/main.js: the waitlist e-mail forms and the shared localStorage   *)
(*     list pbs_waitlist (specification SpecForms);                        *)
(*   - the waitlist setup script (profiles.access_status, handle_new_user, *)
(*     approved_members) and pbsAuth.updateProfile (SpecProfiles);         *)
(*   - supabase/create_catalysts_table.sql and the positions /             *)
(*     catalyst_research setup script: tables, uniqueness constraints,     *)
(*     row-level-security policies and views (SpecCatalysts);              *)
(*   - supabase-config.js: the pbsAuth helpers (SpecAuth);                 *)
(*   - js/news-component.js: the news widget and its cached feed           *)
(*     (SpecNews), timeAgo (SpecTimeAgo) and the border class of           *)
(*     renderNews (SpecBorder);                                            *)
(*   - js/main.js: the toasts of one page under a fair event loop          *)
(*     (SpecToast), isValidEmail on every short string (SpecEmail) and     *)
(*     the mobile menu of the page (SpecMenu).                             *)
(* Strings that the code inspects character by character (e-mail           *)
(* addresses) are sequences of one-character strings.                      *)
(***************************************************************************)
EXTENDS Integers, Sequences, FiniteSets, TLC

VARIABLES
    \* ---- js/main.js ----
    pbs_waitlist,   \* localStorage item 'pbs_waitlist'
    inputValue,     \* [tab][form] emailInput.value
    btnDisabled,    \* [tab][form] submitBtn.disabled
    btnHTML,        \* [tab][form] submitBtn content
    timers,         \* [tab] pending setTimeout callbacks, in the order set
    running,        \* [tab] the timer callback that is inside storeEmail
    toast,          \* [tab] type of the toast shown last, "none" if none
    toastDoc,       \* [tab] the .toast elements of the document, in order
    toastSeq,       \* [tab] number of toast elements created
    pbs_founding_members,   \* localStorage item 'pbs_founding_members'
    nameValue,      \* [tab] nameInput.value of the founding-member form
    spots,          \* [tab] text of #spots-remaining
    focused,        \* [tab] the form whose e-mail input has the focus
    clock,          \* the value new Date() returns
    \* ---- profiles ----
    profiles,       \* rows of public.profiles
    profOp,         \* the last operation on profiles and its outcome
    \* ---- catalysts / catalyst_research ----
    catalysts,      \* rows of catalysts
    catalysts_id_seq,
    catalyst_research,
    catalyst_research_id_seq,
    CURRENT_DATE,
    dbOp,           \* the last statement run against the two tables: its
                    \* command, role and outcome, and in key the triple of
                    \* an INSERT or the id, column and value of an UPDATE
    \* ---- js/news-component.js ----
    newsData,       \* NewsComponent.newsData
    newsCalls,      \* the init / getTickerNews / getAlerts calls that await
    newsCallSeq,    \* number of calls made so far
    container,      \* [container id] what the element shows
    newsFetches,    \* number of fetch(config.dataUrl) requests issued
    newsLoads,      \* number of assignments to newsData
    newsOp,         \* the last step of the widget
    newsIssued,     \* [container id] ticker of the init call issued last
    \* ---- js/main.js: mobile menu ----
    menuClasses,    \* mobileMenu.classList
    ariaExpanded,   \* attribute aria-expanded of mobileMenuBtn
    \* ---- function calls ----
    call            \* the last call of a function without side effects: the
                    \* function, its argument and what it returned

formVars == <<pbs_waitlist, inputValue, btnDisabled, btnHTML, timers, running,
              toast, toastDoc, toastSeq, pbs_founding_members, nameValue,
              spots, focused, clock>>
profVars == <<profiles, profOp>>
catVars  == <<catalysts, catalysts_id_seq, catalyst_research,
              catalyst_research_id_seq, CURRENT_DATE, dbOp>>
newsVars == <<newsData, newsCalls, newsCallSeq, container, newsFetches,
              newsLoads, newsOp, newsIssued>>
menuVars == <<menuClasses, ariaExpanded>>
callVars == <<call>>
vars == <<formVars, profVars, catVars, newsVars, menuVars, callVars>>

NULL == "NULL"

(***************************************************************************)
(* Bounds                                                                  *)
(***************************************************************************)
MaxClock == 2       \* submit events in a run; new Date() is their count

Tabs  == {"tab1", "tab2"}   \* browser tabs sharing one localStorage
Forms == {"hero", "footer"}

(***************************************************************************)
(* js/main.js                                                              *)
(***************************************************************************)
WS == {" "}

RECURSIVE trimStart(_)
trimStart(s) ==
    IF s # <<>> /\ Head(s) \in WS THEN trimStart(Tail(s)) ELSE s

RECURSIVE trimEnd(_)
trimEnd(s) ==
    IF s # <<>> /\ s[Len(s)] \in WS THEN trimEnd(SubSeq(s, 1, Len(s) - 1)) ELSE s

\* String.prototype.trim
trim(s) == trimEnd(trimStart(s))

\* [^\s@]+ : a non-empty run without white space and without '@'
NoWsAt(s, from, to) ==
    /\ from <= to
    /\ \A k \in from..to : s[k] \notin WS /\ s[k] # "@"

isValidEmail_Unanchored(email) ==
    \E i \in 1..Len(email), j \in 1..Len(email) :
        /\ email[i] = "@" /\ email[j] = "." /\ i < j
        /\ NoWsAt(email, 1, i - 1)
        /\ NoWsAt(email, i + 1, j - 1)
        /\ j + 1 <= Len(email)
        /\ NoWsAt(email, j + 1, j + 1)

isValidEmail_NoDot(email) ==
    \E i \in 1..Len(email) :
        /\ email[i] = "@"
        /\ NoWsAt(email, 1, i - 1)
        /\ NoWsAt(email, i + 1, Len(email))

\* /^[^\s@]+@[^\s@]+\.[^\s@]+$/.test(email)
isValidEmail(email) ==
    \E i \in 1..Len(email), j \in 1..Len(email) :
        /\ email[i] = "@" /\ email[j] = "." /\ i < j
        /\ NoWsAt(email, 1, i - 1)
        /\ NoWsAt(email, i + 1, j - 1)
        /\ NoWsAt(email, j + 1, Len(email))

\* what the user can type into an e-mail input
InputPool ==
    { <<" ", "a", "@", "b", ".", "c", " ">>,
      <<"A", "@", "b", ".", "c">>,
      <<"a", "@", "b">> }

ButtonLabel == "Join Waitlist"
Spinner     == "<span class=\"spinner\"></span>"

\* Node.textContent of the button
textContent(html) == IF html = Spinner THEN "" ELSE html

\* a localStorage item: absent (getItem returns null) or a stored value
NoItem == [present |-> FALSE, value |-> <<>>]
Item(v) == [present |-> TRUE, value |-> v]

\* JSON.parse(localStorage.getItem('pbs_waitlist') || '[]')
getStoredEmails(item) == IF ~item.present THEN <<>> ELSE item.value

\* storedEmails.some(entry => entry.email === email)
isDuplicate(storedEmails, email) ==
    \E k \in 1..Len(storedEmails) : storedEmails[k].email = email

\* storeEmail after its read of localStorage: the value localStorage holds
\* under 'pbs_waitlist' when storeEmail returns (item is the value it holds
\* when the duplicate check runs; without setItem it stays as it is)
storeEmail_NoCheck(item, storedEmails, email, source, now) ==
    Item(Append(storedEmails,
                [email |-> email, source |-> source, timestamp |-> now]))

storeEmail_Reread(item, storedEmails, email, source, now) ==
    IF ~isDuplicate(storedEmails, email)
    THEN Item(Append(getStoredEmails(item),
                     [email |-> email, source |-> source, timestamp |-> now]))
    ELSE item

storeEmail(item, storedEmails, email, source, now) ==
    IF ~isDuplicate(storedEmails, email)
    THEN Item(Append(storedEmails,
                     [email |-> email, source |-> source, timestamp |-> now]))
    ELSE item

\* storeFoundingMember after its read of localStorage: the value
\* localStorage holds under 'pbs_founding_members' when it returns
storeFoundingMember(item, storedMembers, name, email, now) ==
    IF ~isDuplicate(storedMembers, email)
    THEN Item(Append(storedMembers,
                     [name |-> name, email |-> email, tier |-> "founding_member",
                      signupDate |-> now, freeMonthsRemaining |-> 6,
                      status |-> "active"]))
    ELSE item

totalSpots == 100

\* the number updateSpotsRemaining writes into #spots-remaining
remaining(item) ==
    IF totalSpots - Len(getStoredEmails(item)) > 0
    THEN totalSpots - Len(getStoredEmails(item))
    ELSE 0

\* what the user can type into the name input of the founding-member form
NamePool == { <<" ", "A">> }

AllForms == Forms \cup {"founding"}

FoundingLabel == "Claim Your Spot"
Processing    == "<span class=\"spinner\"></span> Processing..."

LabelOf(f) == IF f = "founding" THEN FoundingLabel ELSE ButtonLabel

\* Node.textContent of a submit button
buttonText(html) ==
    IF html = Processing THEN " Processing..." ELSE textContent(html)

\* delays of the setTimeout calls, in milliseconds
SubmitDelay   == 1000
FoundingDelay == 1500
ShowDelay     == 10
DismissDelay  == 4000
FadeDelay     == 300

\* the pending timer at position k of a tab can be the next to fire: no timer
\* set before it has a delay that is not longer
Fireable(tm, k) ==
    /\ k \in 1..Len(tm)
    /\ \A j \in 1..(k - 1) : tm[j].delay > tm[k].delay

RemoveAt(tm, k) == SubSeq(tm, 1, k - 1) \o SubSeq(tm, k + 1, Len(tm))

\* showToast: the .toast elements of the document after the call; el is the
\* element it creates
showToast_KeepExisting(doc, el) == Append(doc, el)

showToast(doc, el) == Append(IF doc # <<>> THEN Tail(doc) ELSE doc, el)

\* the two timers showToast sets for the element it creates
ToastTimers(id) ==
    << [kind |-> "toastShow", delay |-> ShowDelay, id |-> id],
       [kind |-> "toastDismiss", delay |-> DismissDelay, id |-> id] >>

\* a call showToast(message, type) in tab t, tm being the tab's pending
\* timers when it is called
ShowToast(t, type, tm) ==
    /\ toast' = [toast EXCEPT ![t] = type]
    /\ toastSeq' = [toastSeq EXCEPT ![t] = @ + 1]
    /\ toastDoc' = [toastDoc EXCEPT ![t] =
                       showToast(@, [id |-> toastSeq[t] + 1, type |-> type,
                                     show |-> FALSE])]
    /\ timers' = [timers EXCEPT ![t] = tm \o ToastTimers(toastSeq[t] + 1)]

Idle == [state |-> "idle"]

FormsInit ==
    /\ pbs_waitlist = NoItem
    /\ pbs_founding_members = NoItem
    /\ inputValue = [t \in Tabs |-> [f \in AllForms |-> <<>>]]
    /\ nameValue = [t \in Tabs |-> <<>>]
    /\ btnDisabled = [t \in Tabs |-> [f \in AllForms |-> FALSE]]
    /\ btnHTML = [t \in Tabs |-> [f \in AllForms |-> LabelOf(f)]]
    /\ spots = [t \in Tabs |-> remaining(NoItem)]
    /\ timers = [t \in Tabs |-> <<>>]
    /\ running = [t \in Tabs |-> Idle]
    /\ toast = [t \in Tabs |-> "none"]
    /\ toastDoc = [t \in Tabs |-> <<>>]
    /\ toastSeq = [t \in Tabs |-> 0]
    /\ focused = [t \in Tabs |-> "none"]
    /\ clock = 0

\* the user enters raw into the e-mail input of a form and submits it: the
\* 'submit' listener installed by handleEmailSubmit(form, formName)
handleEmailSubmit(t, f, raw) ==
    /\ running[t] = Idle
    /\ clock < MaxClock
    /\ clock' = clock + 1
    /\ inputValue' = [inputValue EXCEPT ![t][f] = raw]
    /\ UNCHANGED <<pbs_waitlist, pbs_founding_members, nameValue, spots, running>>
    /\ LET email == trim(raw) IN
       IF ~isValidEmail(email)
       THEN /\ ShowToast(t, "error", timers[t])
            /\ focused' = [focused EXCEPT ![t] = f]
            /\ UNCHANGED <<btnDisabled, btnHTML>>
       ELSE /\ timers' = [timers EXCEPT ![t] = Append(@,
                             [kind |-> "submit", delay |-> SubmitDelay,
                              form |-> f, name |-> <<>>, email |-> email,
                              originalText |-> buttonText(btnHTML[t][f])])]
            /\ btnDisabled' = [btnDisabled EXCEPT ![t][f] = TRUE]
            /\ btnHTML' = [btnHTML EXCEPT ![t][f] = Spinner]
            /\ UNCHANGED <<toast, toastDoc, toastSeq, focused>>

\* the user enters a name and raw into the founding-member form and submits
\* it: the 'submit' listener of foundingMemberForm
foundingMemberSubmit(t, rawName, raw) ==
    /\ running[t] = Idle
    /\ clock < MaxClock
    /\ clock' = clock + 1
    /\ inputValue' = [inputValue EXCEPT ![t]["founding"] = raw]
    /\ nameValue' = [nameValue EXCEPT ![t] = rawName]
    /\ UNCHANGED <<pbs_waitlist, pbs_founding_members, spots, running>>
    /\ LET name  == trim(rawName)
           email == trim(raw) IN
       IF ~isValidEmail(email)
       THEN /\ ShowToast(t, "error", timers[t])
            /\ focused' = [focused EXCEPT ![t] = "founding"]
            /\ UNCHANGED <<btnDisabled, btnHTML>>
       ELSE /\ timers' = [timers EXCEPT ![t] = Append(@,
                             [kind |-> "founding", delay |-> FoundingDelay,
                              form |-> "founding", name |-> name,
                              email |-> email,
                              originalText |->
                                  buttonText(btnHTML[t]["founding"])])]
            /\ btnDisabled' = [btnDisabled EXCEPT ![t]["founding"] = TRUE]
            /\ btnHTML' = [btnHTML EXCEPT ![t]["founding"] = Processing]
            /\ UNCHANGED <<toast, toastDoc, toastSeq, focused>>

\* a submission timer fires and its callback starts: storeEmail, or
\* storeFoundingMember, reads localStorage
TimerRead(t) ==
    /\ running[t] = Idle
    /\ \E k \in 1..Len(timers[t]) :
          /\ Fireable(timers[t], k)
          /\ timers[t][k].kind \in {"submit", "founding"}
          /\ running' = [running EXCEPT ![t] =
                [state |-> IF timers[t][k].kind = "submit"
                           THEN "storeEmail" ELSE "storeFoundingMember",
                 form |-> timers[t][k].form,
                 name |-> timers[t][k].name,
                 email |-> timers[t][k].email,
                 originalText |-> timers[t][k].originalText,
                 storedEmails |->
                    IF timers[t][k].kind = "submit"
                    THEN getStoredEmails(pbs_waitlist)
                    ELSE getStoredEmails(pbs_founding_members)]]
          /\ timers' = [timers EXCEPT ![t] = RemoveAt(@, k)]
    /\ UNCHANGED <<pbs_waitlist, pbs_founding_members, inputValue, nameValue,
                   btnDisabled, btnHTML, spots, toast, toastDoc, toastSeq,
                   focused, clock>>

\* the rest of the timer callback: the duplicate check and the write of
\* storeEmail or storeFoundingMember, the form reset, updateSpotsRemaining
\* (founding-member form) and the success toast
TimerFinish(t) ==
    /\ running[t] # Idle
    /\ LET r == running[t] IN
       /\ IF r.state = "storeEmail"
          THEN /\ pbs_waitlist' = storeEmail(pbs_waitlist, r.storedEmails,
                                             r.email, r.form, clock)
               /\ UNCHANGED <<pbs_founding_members, nameValue, spots>>
          ELSE /\ pbs_founding_members' =
                     storeFoundingMember(pbs_founding_members, r.storedEmails,
                                         r.name, r.email, clock)
               /\ nameValue' = [nameValue EXCEPT ![t] = <<>>]
               /\ spots' = [spots EXCEPT ![t] = remaining(pbs_founding_members')]
               /\ UNCHANGED pbs_waitlist
       /\ inputValue' = [inputValue EXCEPT ![t][r.form] = <<>>]
       /\ btnDisabled' = [btnDisabled EXCEPT ![t][r.form] = FALSE]
       /\ btnHTML' = [btnHTML EXCEPT ![t][r.form] = r.originalText]
       /\ ShowToast(t, "success", timers[t])
    /\ running' = [running EXCEPT ![t] = Idle]
    /\ UNCHANGED <<focused, clock>>

SetShow(doc, id, b) ==
    [k \in 1..Len(doc) |-> IF doc[k].id = id THEN [doc[k] EXCEPT !.show = b]
                           ELSE doc[k]]

\* one of the timers set by showToast fires: the element gets the class
\* 'show' (10 ms), loses it and gets its removal timer (4000 ms), or is
\* removed from the document (300 ms later)
ToastTimer(t) ==
    /\ running[t] = Idle
    /\ \E k \in 1..Len(timers[t]) :
          LET e == timers[t][k] IN
          /\ Fireable(timers[t], k)
          /\ CASE e.kind = "toastShow" ->
                    /\ toastDoc' = [toastDoc EXCEPT ![t] = SetShow(@, e.id, TRUE)]
                    /\ timers' = [timers EXCEPT ![t] = RemoveAt(@, k)]
               [] e.kind = "toastDismiss" ->
                    /\ toastDoc' = [toastDoc EXCEPT ![t] = SetShow(@, e.id, FALSE)]
                    /\ timers' = [timers EXCEPT ![t] =
                          Append(RemoveAt(@, k),
                                 [kind |-> "toastRemove", delay |-> FadeDelay,
                                  id |-> e.id])]
               [] e.kind = "toastRemove" ->
                    /\ toastDoc' = [toastDoc EXCEPT ![t] =
                          SelectSeq(@, LAMBDA el : el.id # e.id)]
                    /\ timers' = [timers EXCEPT ![t] = RemoveAt(@, k)]
               [] OTHER -> FALSE
    /\ UNCHANGED <<pbs_waitlist, pbs_founding_members, inputValue, nameValue,
                   btnDisabled, btnHTML, spots, running, toast, toastSeq,
                   focused, clock>>

FormsNext ==
    \/ \E t \in Tabs, f \in Forms, raw \in InputPool :
          handleEmailSubmit(t, f, raw)
    \/ \E t \in Tabs, rawName \in NamePool, raw \in InputPool :
          foundingMemberSubmit(t, rawName, raw)
    \/ \E t \in Tabs : TimerRead(t)
    \/ \E t \in Tabs : TimerFinish(t)
    \/ \E t \in Tabs : ToastTimer(t)

(***************************************************************************)
(* profiles: the waitlist setup script and pbsAuth.updateProfile           *)
(***************************************************************************)
MaxUsers == 2       \* auth account ids

UserIds == 1..MaxUsers

\* new.email of the auth.users row with this id
EmailOf(id) == "user" \o ToString(id) \o "@b.c"

\* raw_user_meta_data->>'full_name' of a new auth.users row
MetaNames == {NULL, "Ann"}

\* the 'updates' objects a caller passes to pbsAuth.updateProfile
UpdatesPool ==
    { [full_name |-> "Ann"],
      [access_status |-> "admin"],
      [access_status |-> "vip"],
      [access_status |-> NULL] }

\* COALESCE(a, b)
COALESCE(a, b) == IF a # NULL THEN a ELSE b

\* ADD COLUMN IF NOT EXISTS access_status VARCHAR(20) DEFAULT 'waitlist'
access_status_DEFAULT == "waitlist"

HasProfile(rows, id) == \E k \in 1..Len(rows) : rows[k].id = id

\* the body of handle_new_user: INSERT INTO public.profiles ... ON CONFLICT
\* (id) DO NOTHING
handle_new_user_NoConflictClause(rows, new) ==
    Append(rows, [id |-> new.id, email |-> new.email,
                  full_name |-> COALESCE(new.full_name, ""),
                  access_status |-> "waitlist"])

handle_new_user(rows, new) ==
    IF HasProfile(rows, new.id)
    THEN rows
    ELSE Append(rows, [id |-> new.id, email |-> new.email,
                       full_name |-> COALESCE(new.full_name, ""),
                       access_status |-> "waitlist"])

\* UPDATE profiles SET access_status = 'approved'
\* WHERE access_status IS NULL OR access_status = 'waitlist'
setup_script_UPDATE(rows) ==
    [k \in 1..Len(rows) |->
        IF rows[k].access_status = NULL \/ rows[k].access_status = "waitlist"
        THEN [rows[k] EXCEPT !.access_status = "approved"]
        ELSE rows[k]]

\* one row after .upsert({ id: userId, ...updates }): the listed columns are
\* overwritten, the others keep their value
MergeRow(row, updates) ==
    [c \in DOMAIN row |-> IF c \in DOMAIN updates THEN updates[c] ELSE row[c]]

\* the row .upsert inserts when no row has the id: columns that are not
\* listed take their default
NewRow(id, updates) ==
    MergeRow([id |-> id, email |-> NULL, full_name |-> NULL,
              access_status |-> access_status_DEFAULT], updates)

\* supabaseClient.from('profiles').upsert({ id: userId, ...updates, ... })
upsert(rows, userId, updates) ==
    IF HasProfile(rows, userId)
    THEN [k \in 1..Len(rows) |->
            IF rows[k].id = userId THEN MergeRow(rows[k], updates) ELSE rows[k]]
    ELSE Append(rows, NewRow(userId, updates))

\* SQL: x IN (list) is true only for a non-null x that equals a member
SqlIn(x, list) == x # NULL /\ x \in list

\* CREATE OR REPLACE VIEW approved_members AS
\* SELECT * FROM profiles WHERE access_status IN ('admin', 'approved')
approved_members_NotWaitlist(rows) ==
    LET keep(r) == r.access_status # "waitlist" IN SelectSeq(rows, keep)

approved_members(rows) ==
    LET keep(r) == SqlIn(r.access_status, {"admin", "approved"})
    IN SelectSeq(rows, keep)

\* the script has been run once: the accounts that signed up before waitlist
\* mode are 'approved' and the trigger is installed
ProfilesInit ==
    /\ profiles \in { <<>>,
                      <<[id |-> 1, email |-> EmailOf(1), full_name |-> "Ann",
                         access_status |-> "approved"]>> }
    /\ profOp = [op |-> "none", id |-> 0, existed |-> FALSE]

\* AFTER INSERT ON auth.users FOR EACH ROW EXECUTE FUNCTION handle_new_user()
on_auth_user_created(id, name) ==
    /\ profiles' = handle_new_user(profiles,
                      [id |-> id, email |-> EmailOf(id), full_name |-> name])
    /\ profOp' = [op |-> "handle_new_user", id |-> id,
                  existed |-> HasProfile(profiles, id)]

\* the setup script is run again in the SQL editor
setup_script ==
    /\ profiles' = setup_script_UPDATE(profiles)
    /\ profOp' = [op |-> "setup_script", id |-> 0, existed |-> FALSE]

\* pbsAuth.updateProfile(userId, updates); the hosted service applies the
\* upsert or answers with an error
updateProfile(userId, updates) ==
    \E applied \in BOOLEAN :
        /\ profiles' = IF applied THEN upsert(profiles, userId, updates)
                       ELSE profiles
        /\ profOp' = [op |-> "updateProfile", id |-> userId,
                      existed |-> HasProfile(profiles, userId)]

\* the administrator's manual statement:
\* UPDATE profiles SET access_status = ... WHERE id = 'your-user-id-here'
admin_update(id, status) ==
    /\ HasProfile(profiles, id)
    /\ profiles' = [k \in 1..Len(profiles) |->
                      IF profiles[k].id = id
                      THEN [profiles[k] EXCEPT !.access_status = status]
                      ELSE profiles[k]]
    /\ profOp' = [op |-> "admin_update", id |-> id, existed |-> TRUE]

ProfilesNext ==
    \/ \E id \in UserIds, name \in MetaNames : on_auth_user_created(id, name)
    \/ setup_script
    \/ \E id \in UserIds, u \in UpdatesPool : updateProfile(id, u)
    \/ \E id \in UserIds, st \in {"approved", "admin"} : admin_update(id, st)

(***************************************************************************)
(* catalysts and catalyst_research: constraints, row level security, views *)
(***************************************************************************)
MaxSerial == 2      \* ids the two SERIAL sequences hand out in a run

Tickers == {"INSM", "CRNX"}
Events  == {"PDUFA"}
Dates   == {0, 1}   \* dates are day numbers

\* the roles of the hosted database; the SQL editor runs the scripts as the
\* owner of the tables and views they create
TableOwner == "postgres"
Roles      == {"anon", "authenticated", "service_role"}
PUBLIC     == Roles \cup {TableOwner}

\* CREATE POLICY ... ON catalysts
catalysts_policies_NoRole ==
    { [cmd |-> "SELECT", to |-> PUBLIC, using |-> "is_public = true",
       check |-> "true"],
      [cmd |-> "SELECT", to |-> PUBLIC, using |-> "true",
       check |-> "true"],
      [cmd |-> "ALL", to |-> {"service_role"}, using |-> "true",
       check |-> "true"] }

catalysts_policies_WritePublic ==
    { [cmd |-> "SELECT", to |-> PUBLIC, using |-> "is_public = true",
       check |-> "true"],
      [cmd |-> "SELECT", to |-> {"authenticated"}, using |-> "true",
       check |-> "true"],
      [cmd |-> "ALL", to |-> PUBLIC, using |-> "true",
       check |-> "true"] }

catalysts_policies ==
    { \* "Public catalysts are viewable by everyone"
      [cmd |-> "SELECT", to |-> PUBLIC, using |-> "is_public = true",
       check |-> "true"],
      \* "Authenticated users can view all catalysts"
      [cmd |-> "SELECT", to |-> {"authenticated"}, using |-> "true",
       check |-> "true"],
      \* "Service role can manage catalysts"
      [cmd |-> "ALL", to |-> {"service_role"}, using |-> "true",
       check |-> "true"] }

\* CREATE POLICY ... ON catalyst_research
catalyst_research_policies ==
    { \* "Public read access for catalyst_research"
      [cmd |-> "SELECT", to |-> PUBLIC, using |-> "true", check |-> "true"],
      \* "Service role write access for catalyst_research"
      [cmd |-> "ALL", to |-> PUBLIC, using |-> "true", check |-> "true"] }

\* the value of a policy expression on a row
PolicyExpr(expr, row) ==
    IF expr = "is_public = true" THEN row.is_public = TRUE ELSE TRUE

\* ENABLE ROW LEVEL SECURITY (not FORCE): the permissive policies that apply
\* to the command and the role are OR-ed; the owner of the table is exempt
Applies(p, cmd, role) == p.cmd \in {cmd, "ALL"} /\ role \in p.to

UsingPasses(policies, cmd, role, row) ==
    \/ role = TableOwner
    \/ \E p \in policies : Applies(p, cmd, role) /\ PolicyExpr(p.using, row)

CheckPasses(policies, cmd, role, row) ==
    \/ role = TableOwner
    \/ \E p \in policies : Applies(p, cmd, role) /\ PolicyExpr(p.check, row)

\* SELECT * FROM <table> run by a role
Select(rows, policies, role) ==
    { r \in rows : UsingPasses(policies, "SELECT", role, r) }

Triple(r) == <<r.ticker, r.catalyst_date, r.catalyst_event>>

\* UNIQUE(ticker, catalyst_date, catalyst_event)
UniqueViolation_NoConstraint(rows, row) == FALSE

UniqueViolation(rows, row) ==
    \E r \in rows : r.id # row.id /\ Triple(r) = Triple(row)

\* INSERT INTO <table> run by a role: the table afterwards and the outcome
Insert(rows, policies, role, row) ==
    IF ~CheckPasses(policies, "INSERT", role, row)
    THEN [rows |-> rows, res |-> "rls_violation"]
    ELSE IF UniqueViolation(rows, row)
    THEN [rows |-> rows, res |-> "unique_violation"]
    ELSE [rows |-> rows \cup {row}, res |-> "ok"]

\* the rows of the table an UPDATE or DELETE ... WHERE id = <id> of a role
\* reaches
Targets(rows, policies, cmd, role, id) ==
    { r \in rows : /\ r.id = id
                   /\ UsingPasses(policies, "SELECT", role, r)
                   /\ UsingPasses(policies, cmd, role, r) }

\* UPDATE <table> SET <col> = <val> WHERE id = <id> run by a role
Update(rows, policies, role, id, col, val) ==
    LET targets == Targets(rows, policies, "UPDATE", role, id)
        changed == { [r EXCEPT ![col] = val] : r \in targets }
    IN  IF targets = {}
        THEN [rows |-> rows, res |-> "no_rows"]
        ELSE IF \E n \in changed : ~CheckPasses(policies, "UPDATE", role, n)
        THEN [rows |-> rows, res |-> "rls_violation"]
        ELSE IF \E n \in changed : UniqueViolation(rows, n)
        THEN [rows |-> rows, res |-> "unique_violation"]
        ELSE [rows |-> (rows \ targets) \cup changed, res |-> "ok"]

\* DELETE FROM <table> WHERE id = <id> run by a role
Delete(rows, policies, role, id) ==
    LET targets == Targets(rows, policies, "DELETE", role, id)
    IN  IF targets = {}
        THEN [rows |-> rows, res |-> "no_rows"]
        ELSE [rows |-> rows \ targets, res |-> "ok"]

\* GRANT SELECT ON calendar_catalysts TO anon / TO authenticated
calendar_catalysts_grants == {"anon", "authenticated", TableOwner}

\* CREATE OR REPLACE VIEW calendar_catalysts: the rows a role gets from the
\* view (as a set; ORDER BY catalyst_date is not modelled).  The view has no
\* security_invoker option, so its query reads catalysts as the view's owner.
calendar_catalysts_AfterToday(rows, today, role) ==
    IF role \notin calendar_catalysts_grants THEN {}
    ELSE { [id |-> r.id, ticker |-> r.ticker,
            catalyst_date |-> r.catalyst_date,
            catalyst_event |-> r.catalyst_event, is_public |-> r.is_public,
            days_until |-> r.catalyst_date - today] :
           r \in { x \in Select(rows, catalysts_policies, TableOwner) :
                     x.catalyst_date > today } }

calendar_catalysts(rows, today, role) ==
    IF role \notin calendar_catalysts_grants THEN {}
    ELSE { [id |-> r.id, ticker |-> r.ticker,
            catalyst_date |-> r.catalyst_date,
            catalyst_event |-> r.catalyst_event, is_public |-> r.is_public,
            days_until |-> r.catalyst_date - today] :
           r \in { x \in Select(rows, catalysts_policies, TableOwner) :
                     x.catalyst_date >= today } }

CatalystsInit ==
    /\ catalysts = {}
    /\ catalysts_id_seq = 0
    /\ catalyst_research = {}
    /\ catalyst_research_id_seq = 0
    /\ CURRENT_DATE = 0
    /\ dbOp = [tbl |-> "none", cmd |-> "none", role |-> "none", res |-> "none",
               key |-> <<>>]

\* INSERT INTO catalysts (ticker, catalyst_date, catalyst_event, is_public)
InsertCatalyst(role, tk, d, ev, pub) ==
    /\ catalysts_id_seq + catalyst_research_id_seq < MaxSerial
    /\ LET row == [id |-> catalysts_id_seq + 1, ticker |-> tk,
                   catalyst_date |-> d, catalyst_event |-> ev,
                   is_public |-> pub]
           out == Insert(catalysts, catalysts_policies, role, row)
       IN  /\ catalysts' = out.rows
           /\ catalysts_id_seq' = catalysts_id_seq + 1
           /\ dbOp' = [tbl |-> "catalysts", cmd |-> "INSERT", role |-> role,
                       res |-> out.res, key |-> Triple(row)]
    /\ UNCHANGED <<catalyst_research, catalyst_research_id_seq, CURRENT_DATE>>

\* UPDATE catalysts SET catalyst_date = d / is_public = v WHERE id = id
UpdateCatalyst(role, id, col, val) ==
    /\ LET out == Update(catalysts, catalysts_policies, role, id, col, val)
       IN  /\ catalysts' = out.rows
           /\ dbOp' = [tbl |-> "catalysts", cmd |-> "UPDATE", role |-> role,
                       res |-> out.res, key |-> <<id, col, val>>]
    /\ UNCHANGED <<catalysts_id_seq, catalyst_research,
                   catalyst_research_id_seq, CURRENT_DATE>>

\* DELETE FROM catalysts WHERE id = id
DeleteCatalyst(role, id) ==
    /\ LET out == Delete(catalysts, catalysts_policies, role, id)
       IN  /\ catalysts' = out.rows
           /\ dbOp' = [tbl |-> "catalysts", cmd |-> "DELETE", role |-> role,
                       res |-> out.res, key |-> <<id>>]
    /\ UNCHANGED <<catalysts_id_seq, catalyst_research,
                   catalyst_research_id_seq, CURRENT_DATE>>

\* INSERT INTO catalyst_research (ticker, catalyst_date, catalyst_event)
InsertResearch(role, tk, d, ev) ==
    /\ catalysts_id_seq + catalyst_research_id_seq < MaxSerial
    /\ LET row == [id |-> catalyst_research_id_seq + 1, ticker |-> tk,
                   catalyst_date |-> d, catalyst_event |-> ev]
           out == Insert(catalyst_research, catalyst_research_policies,
                         role, row)
       IN  /\ catalyst_research' = out.rows
           /\ catalyst_research_id_seq' = catalyst_research_id_seq + 1
           /\ dbOp' = [tbl |-> "catalyst_research", cmd |-> "INSERT",
                       role |-> role, res |-> out.res, key |-> Triple(row)]
    /\ UNCHANGED <<catalysts, catalysts_id_seq, CURRENT_DATE>>

\* UPDATE catalyst_research SET catalyst_date = d WHERE id = id
UpdateResearch(role, id, d) ==
    /\ LET out == Update(catalyst_research, catalyst_research_policies,
                         role, id, "catalyst_date", d)
       IN  /\ catalyst_research' = out.rows
           /\ dbOp' = [tbl |-> "catalyst_research", cmd |-> "UPDATE",
                       role |-> role, res |-> out.res,
                       key |-> <<id, "catalyst_date", d>>]
    /\ UNCHANGED <<catalysts, catalysts_id_seq, catalyst_research_id_seq,
                   CURRENT_DATE>>

\* midnight: CURRENT_DATE moves on
NextDay ==
    /\ CURRENT_DATE + 1 \in Dates
    /\ CURRENT_DATE' = CURRENT_DATE + 1
    /\ dbOp' = [tbl |-> "none", cmd |-> "NextDay", role |-> "none",
                res |-> "ok", key |-> <<>>]
    /\ UNCHANGED <<catalysts, catalysts_id_seq, catalyst_research,
                   catalyst_research_id_seq>>

CatalystsNext ==
    \/ \E role \in Roles, tk \in Tickers, d \in Dates, ev \in Events,
          pub \in BOOLEAN : InsertCatalyst(role, tk, d, ev, pub)
    \/ \E role \in Roles, id \in 1..MaxSerial, d \in Dates :
          UpdateCatalyst(role, id, "catalyst_date", d)
    \/ \E role \in Roles, id \in 1..MaxSerial, pub \in BOOLEAN :
          UpdateCatalyst(role, id, "is_public", pub)
    \/ \E role \in Roles, id \in 1..MaxSerial : DeleteCatalyst(role, id)
    \/ \E role \in Roles, tk \in Tickers, d \in Dates, ev \in Events :
          InsertResearch(role, tk, d, ev)
    \/ \E role \in Roles, id \in 1..MaxSerial, d \in Dates :
          UpdateResearch(role, id, d)
    \/ NextDay

(***************************************************************************)
(* supabase-config.js: pbsAuth                                             *)
(***************************************************************************)
AuthOps == {"getUser", "getSession", "signUp", "signIn", "signOut",
            "resetPassword", "updatePassword", "isAuthenticated",
            "getProfile", "updateProfile"}

\* the data slot of a response of the hosted service: absent (null), or an
\* object whose member (user, session, row ...) is value
NoData == [present |-> FALSE, value |-> NULL]
Data(v) == [present |-> TRUE, value |-> v]

AuthValues == {NULL, "v1", "v2"}
AuthErrors == {NULL, "AuthApiError", "AuthSessionMissingError", "PGRST116"}

\* every { data, error } the awaited client call can resolve to
AuthResponses ==
    { [data |-> d, error |-> e] :
         d \in {NoData} \cup { Data(v) : v \in AuthValues }, e \in AuthErrors }

Throws == [kind |-> "throws"]

\* const { data: { user } } = await ...; return user;
\* destructuring a member out of a null data raises a TypeError
getUser(resp) ==
    IF ~resp.data.present THEN Throws
    ELSE [kind |-> "value", value |-> resp.data.value]

getSession(resp) ==
    IF ~resp.data.present THEN Throws
    ELSE [kind |-> "value", value |-> resp.data.value]

\* const { data, error } = await ...; return { data, error };
ReturnPair_DataOnly(resp) == [kind |-> "value", value |-> resp.data]

ReturnPair(resp) == [kind |-> "pair", data |-> resp.data, error |-> resp.error]

\* const { error } = await supabaseClient.auth.signOut(); return { error };
signOut(resp) == [kind |-> "error", error |-> resp.error]

\* const session = await this.getSession(); return !!session;
isAuthenticated(resp) ==
    IF getSession(resp) = Throws THEN Throws
    ELSE [kind |-> "boolean", value |-> getSession(resp).value # NULL]

\* what the promise returned by a pbsAuth helper settles to when the awaited
\* client call resolves to resp
pbsAuth(op, resp) ==
    CASE op = "getUser"         -> getUser(resp)
      [] op = "getSession"      -> getSession(resp)
      [] op = "signOut"         -> signOut(resp)
      [] op = "isAuthenticated" -> isAuthenticated(resp)
      [] OTHER                  -> ReturnPair(resp)

\* no function has been called yet; each run calls one function once
NoCall == [fn |-> "none"]

CallInit == call = NoCall

AuthCall(op, resp) ==
    call' = [fn |-> "pbsAuth", op |-> op, arg |-> resp, out |-> pbsAuth(op, resp)]

AuthNext ==
    /\ call = NoCall
    /\ \E op \in AuthOps, resp \in AuthResponses : AuthCall(op, resp)

(***************************************************************************)
(* js/news-component.js                                                    *)
(***************************************************************************)
MaxCalls == 2       \* init / getTickerNews / getAlerts calls in a run

Containers  == {"news1", "news2"}      \* elements of the page
ContainerIds == Containers \cup {"missing"}
NewsTickers == {"INSM", "CRNX"}
MaxItemsPool == {0, 1, 5}              \* options.maxItems; 5 is the default

\* documents data/news.json can hold
Feed1 == [has_by_ticker |-> TRUE,
          by_ticker |-> [INSM |-> <<"a1", "a2">>, CRNX |-> <<>>]]
Feed2 == [has_by_ticker |-> FALSE, by_ticker |-> <<>>]
Feed3 == [has_by_ticker |-> TRUE, by_ticker |-> [INSM |-> <<"a3">>]]
Feeds == {Feed1, Feed2, Feed3}

NoFeed == [loaded |-> FALSE]
Loaded(doc) == [loaded |-> TRUE, doc |-> doc]

\* this.newsData.by_ticker?.[ticker] || []
tickerNews(doc, ticker) ==
    IF doc.has_by_ticker /\ ticker \in DOMAIN doc.by_ticker
    THEN doc.by_ticker[ticker]
    ELSE <<>>

Min(a, b) == IF a < b THEN a ELSE b
Max(a, b) == IF a < b THEN b ELSE a

\* Array.prototype.slice(0, n)
slice0(items, n) ==
    SubSeq(items, 1, IF n < 0 THEN Max(Len(items) + n, 0) ELSE Min(n, Len(items)))

Untouched        == [view |-> "untouched"]
renderLoading    == [view |-> "loading"]
renderEmpty(ticker) == [view |-> "empty", ticker |-> ticker]
renderError_Loading == [view |-> "loading"]
renderError      == [view |-> "error"]
renderNews(items, ticker) == [view |-> "news", ticker |-> ticker, items |-> items]

\* lines 50-59 of init: what the container shows once newsData holds doc
ShowTicker(doc, ticker, maxItems) ==
    IF Len(tickerNews(doc, ticker)) = 0
    THEN renderEmpty(ticker)
    ELSE renderNews(slice0(tickerNews(doc, ticker), maxItems), ticker)

NewsInit ==
    /\ newsData = NoFeed
    /\ newsCalls = {}
    /\ newsCallSeq = 0
    /\ container = [c \in Containers |-> Untouched]
    /\ newsFetches = 0
    /\ newsLoads = 0
    /\ newsOp = [step |-> "none"]
    /\ newsIssued = [c \in Containers |-> "none"]

\* NewsComponent.init(containerId, ticker, { maxItems }) up to its first await
\* (or to its end, when newsData is there already)
init(c, ticker, maxItems) ==
    /\ newsCallSeq < MaxCalls
    /\ newsCallSeq' = newsCallSeq + 1
    /\ newsOp' = [step |-> "call", fn |-> "init", id |-> newsCallSeq + 1,
                  container |-> c, ticker |-> ticker, maxItems |-> maxItems]
    /\ UNCHANGED <<newsData, newsLoads>>
    /\ newsIssued' = IF c \in Containers
                     THEN [newsIssued EXCEPT ![c] = ticker]
                     ELSE newsIssued
    /\ IF c \notin Containers
       THEN UNCHANGED <<newsCalls, container, newsFetches>>
       ELSE IF newsData = NoFeed
       THEN /\ container' = [container EXCEPT ![c] = renderLoading]
            /\ newsFetches' = newsFetches + 1
            /\ newsCalls' = newsCalls \cup
                  {[id |-> newsCallSeq + 1, fn |-> "init", container |-> c,
                    ticker |-> ticker, maxItems |-> maxItems,
                    pc |-> "fetch", fetches |-> 1]}
       ELSE /\ container' = [container EXCEPT ![c] =
                                ShowTicker(newsData.doc, ticker, maxItems)]
            /\ UNCHANGED <<newsCalls, newsFetches>>

\* NewsComponent.getTickerNews(ticker) (fn = "getTickerNews", ticker given) and
\* NewsComponent.getAlerts() (fn = "getAlerts") up to their first await
getCached(fn, ticker) ==
    /\ newsCallSeq < MaxCalls
    /\ newsCallSeq' = newsCallSeq + 1
    /\ newsOp' = [step |-> "call", fn |-> fn, id |-> newsCallSeq + 1,
                  container |-> "missing", ticker |-> ticker, maxItems |-> 0]
    /\ UNCHANGED <<newsData, newsLoads, container, newsIssued>>
    /\ IF newsData = NoFeed
       THEN /\ newsFetches' = newsFetches + 1
            /\ newsCalls' = newsCalls \cup
                  {[id |-> newsCallSeq + 1, fn |-> fn, container |-> "missing",
                    ticker |-> ticker, maxItems |-> 0,
                    pc |-> "fetch", fetches |-> 1]}
       ELSE UNCHANGED <<newsCalls, newsFetches>>

\* a call ends without newsData: init's catch block shows the error state,
\* the promise of getTickerNews / getAlerts rejects
Fail(k) ==
    /\ newsCalls' = newsCalls \ {k}
    /\ container' = IF k.fn = "init"
                    THEN [container EXCEPT ![k.container] = renderError]
                    ELSE container
    /\ newsOp' = [step |-> "failed", fn |-> k.fn, id |-> k.id,
                  container |-> k.container, ticker |-> k.ticker,
                  maxItems |-> k.maxItems, fetches |-> k.fetches]
    /\ UNCHANGED <<newsData, newsCallSeq, newsFetches, newsLoads, newsIssued>>

\* await fetch(config.dataUrl) settles
FetchResolves(k) ==
    /\ k \in newsCalls /\ k.pc = "fetch"
    /\ newsCalls' = (newsCalls \ {k}) \cup {[k EXCEPT !.pc = "json"]}
    /\ newsOp' = [step |-> "response", fn |-> k.fn, id |-> k.id]
    /\ UNCHANGED <<newsData, newsCallSeq, container, newsFetches, newsLoads,
                   newsIssued>>

FetchRejects(k) ==
    /\ k \in newsCalls /\ k.pc = "fetch"
    /\ Fail(k)

\* await response.json() settles
JsonResolves(k, doc) ==
    /\ k \in newsCalls /\ k.pc = "json"
    /\ newsData' = Loaded(doc)
    /\ newsLoads' = newsLoads + 1
    /\ newsCalls' = newsCalls \ {k}
    /\ container' = IF k.fn = "init"
                    THEN [container EXCEPT ![k.container] =
                             ShowTicker(doc, k.ticker, k.maxItems)]
                    ELSE container
    /\ newsOp' = [step |-> "loaded", fn |-> k.fn, id |-> k.id,
                  container |-> k.container, ticker |-> k.ticker,
                  maxItems |-> k.maxItems, fetches |-> k.fetches]
    /\ UNCHANGED <<newsCallSeq, newsFetches, newsIssued>>

JsonRejects(k) ==
    /\ k \in newsCalls /\ k.pc = "json"
    /\ Fail(k)

NewsNext ==
    \/ \E c \in ContainerIds, ticker \in NewsTickers, n \in MaxItemsPool :
          init(c, ticker, n)
    \/ \E ticker \in NewsTickers : getCached("getTickerNews", ticker)
    \/ getCached("getAlerts", "none")
    \/ \E k \in newsCalls : FetchResolves(k)
    \/ \E k \in newsCalls : FetchRejects(k)
    \/ \E k \in newsCalls, doc \in Feeds : JsonResolves(k, doc)
    \/ \E k \in newsCalls : JsonRejects(k)

(***************************************************************************)
(* js/news-component.js: timeAgo and the border class of renderNews        *)
(***************************************************************************)
MaxSeconds == 130   \* every whole second from -2 up to MaxSeconds is tried

\* elapsed whole seconds around which the unit changes, and multiples
BucketSeconds == {3599, 3600, 3601, 7199, 7200, 7201, 86399, 86400, 86401,
                  172799, 172800, 172801}

\* now - date, in milliseconds
ElapsedPool ==
    { 1000 * sec + ms : sec \in (-2..MaxSeconds) \cup BucketSeconds,
                        ms \in {0, 999} }

JustNow == [text |-> "just now"]
Ago(n, unit) == [n |-> n, unit |-> unit]

timeAgo_Inclusive(elapsed) ==
    LET seconds == elapsed \div 1000 IN
    IF seconds <= 60 THEN JustNow
    ELSE IF seconds <= 3600 THEN Ago(seconds \div 60, "m ago")
    ELSE IF seconds <= 86400 THEN Ago(seconds \div 3600, "h ago")
    ELSE Ago(seconds \div 86400, "d ago")

\* timeAgo(dateString), elapsed being now - date
timeAgo(elapsed) ==
    LET seconds == elapsed \div 1000 IN
    IF seconds < 60 THEN JustNow
    ELSE IF seconds < 3600 THEN Ago(seconds \div 60, "m ago")
    ELSE IF seconds < 86400 THEN Ago(seconds \div 3600, "h ago")
    ELSE Ago(seconds \div 86400, "d ago")

TimeAgoCall(elapsed) ==
    call' = [fn |-> "timeAgo", arg |-> elapsed, out |-> timeAgo(elapsed)]

TimeAgoNext ==
    /\ call = NoCall
    /\ \E elapsed \in ElapsedPool : TimeAgoCall(elapsed)

MaxCategories == 3  \* length of item.categories

Sentiments == {"positive", "negative", "neutral", NULL}
Categories == {"fda", "clinical", "earnings"}

\* news items: sentiment, and categories (an array, or missing)
NewsItems ==
    { [sentiment |-> sn, hasCategories |-> FALSE, categories |-> <<>>] :
         sn \in Sentiments }
    \cup
    { [sentiment |-> sn, hasCategories |-> TRUE, categories |-> cs] :
         sn \in Sentiments,
         cs \in UNION { [1..n -> Categories] : n \in 0..MaxCategories } }

\* item.categories?.includes(c)
includes(item, c) ==
    /\ item.hasCategories
    /\ \E k \in 1..Len(item.categories) : item.categories[k] = c

borderClass_FdaFirst(item) ==
    IF includes(item, "fda") THEN "border-green-500"
    ELSE IF item.sentiment = "negative" THEN "border-red-500"
    ELSE IF includes(item, "clinical") THEN "border-blue-500"
    ELSE "border-gray-700"

\* the borderClass renderNews computes for an item
borderClass(item) ==
    IF item.sentiment = "negative" THEN "border-red-500"
    ELSE IF includes(item, "fda") THEN "border-green-500"
    ELSE IF includes(item, "clinical") THEN "border-blue-500"
    ELSE "border-gray-700"

BorderCall(item) ==
    call' = [fn |-> "borderClass", arg |-> item, out |-> borderClass(item)]

BorderNext ==
    /\ call = NoCall
    /\ \E item \in NewsItems : BorderCall(item)

(***************************************************************************)
(* js/main.js: isValidEmail on every short string                          *)
(***************************************************************************)
MaxLen == 7         \* length of the strings tried

Alphabet == {"a", "@", ".", " "}

Strings == UNION { [1..n -> Alphabet] : n \in 0..MaxLen }

EmailCall(str) ==
    call' = [fn |-> "isValidEmail", arg |-> str, out |-> isValidEmail(str)]

EmailNext ==
    /\ call = NoCall
    /\ \E str \in Strings : EmailCall(str)

(***************************************************************************)
(* js/main.js: mobile menu                                                 *)
(***************************************************************************)
\* DOMTokenList.toggle
toggle(classList, c) ==
    IF c \in classList THEN classList \ {c} ELSE classList \cup {c}

\* setAttribute turns the boolean into the string 'true' or 'false'
AttrString(b) == IF b THEN "true" ELSE "false"

\* the menu is hidden and the button says aria-expanded="false"
MenuInit ==
    /\ menuClasses = {"hidden"}
    /\ ariaExpanded = "false"

\* 'click' listener of mobileMenuBtn
MenuButtonClick ==
    /\ menuClasses' = toggle(toggle(menuClasses, "hidden"), "open")
    /\ ariaExpanded' = AttrString("hidden" \notin menuClasses')

\* 'click' listener of a link inside the mobile menu
MenuLinkClick ==
    /\ menuClasses' = (menuClasses \cup {"hidden"}) \ {"open"}
    /\ UNCHANGED ariaExpanded

MenuNext == MenuButtonClick \/ MenuLinkClick

(***************************************************************************)
(* Specifications                                                          *)
(***************************************************************************)
Init ==
    /\ FormsInit /\ ProfilesInit /\ CatalystsInit /\ NewsInit /\ MenuInit
    /\ CallInit

SpecForms ==
    Init /\ [][FormsNext /\ UNCHANGED <<profVars, catVars, newsVars, menuVars, callVars>>]_vars

SpecProfiles ==
    Init /\ [][ProfilesNext /\ UNCHANGED <<formVars, catVars, newsVars, menuVars, callVars>>]_vars

SpecCatalysts ==
    Init /\ [][CatalystsNext /\ UNCHANGED <<formVars, profVars, newsVars, menuVars, callVars>>]_vars

SpecAuth ==
    Init /\ [][AuthNext /\ UNCHANGED <<formVars, profVars, catVars, newsVars, menuVars>>]_vars

SpecTimeAgo ==
    Init /\ [][TimeAgoNext /\ UNCHANGED <<formVars, profVars, catVars, newsVars, menuVars>>]_vars

SpecBorder ==
    Init /\ [][BorderNext /\ UNCHANGED <<formVars, profVars, catVars, newsVars, menuVars>>]_vars

SpecEmail ==
    Init /\ [][EmailNext /\ UNCHANGED <<formVars, profVars, catVars, newsVars, menuVars>>]_vars

SpecNews ==
    Init /\ [][NewsNext /\ UNCHANGED <<formVars, profVars, catVars, menuVars, callVars>>]_vars

\* one tab alone; the event loop runs every timer callback that is due
PageNext ==
    \/ \E f \in Forms, raw \in InputPool : handleEmailSubmit("tab1", f, raw)
    \/ \E rawName \in NamePool, raw \in InputPool :
          foundingMemberSubmit("tab1", rawName, raw)
    \/ TimerRead("tab1")
    \/ TimerFinish("tab1")
    \/ ToastTimer("tab1")

OtherVars == <<profVars, catVars, newsVars, menuVars, callVars>>

SpecToast ==
    /\ Init
    /\ [][PageNext /\ UNCHANGED OtherVars]_vars
    /\ WF_vars(TimerRead("tab1") /\ UNCHANGED OtherVars)
    /\ WF_vars(TimerFinish("tab1") /\ UNCHANGED OtherVars)
    /\ WF_vars(ToastTimer("tab1") /\ UNCHANGED OtherVars)

\* the page of one tab: its forms, its timers and its mobile menu
SpecMenu ==
    Init /\ [][ \/ MenuNext /\ UNCHANGED <<formVars, profVars, catVars,
                                           newsVars, callVars>>
                \/ PageNext /\ UNCHANGED OtherVars ]_vars

(***************************************************************************)
(* Properties                                                              *)
(***************************************************************************)
NoDuplicateEmails(list) ==
    \A i, j \in 1..Len(list) : list[i].email = list[j].email => i = j

\* C1: after every step the list under pbs_waitlist holds at most one entry
\* per exact e-mail string and every stored e-mail is trimmed; a storeEmail
\* call that finds its e-mail in the list it read leaves localStorage as it
\* is.  This holds for both forms and for every interleaving of the two tabs.
C1_WaitlistOneEntryPerEmail ==
    [][ /\ NoDuplicateEmails(getStoredEmails(pbs_waitlist'))
        /\ \A k \in 1..Len(getStoredEmails(pbs_waitlist')) :
              trim(getStoredEmails(pbs_waitlist')[k].email)
                 = getStoredEmails(pbs_waitlist')[k].email
        /\ \A t \in Tabs :
              ( /\ running[t] # Idle
                /\ running'[t] = Idle
                /\ isDuplicate(running[t].storedEmails, running[t].email) )
              => pbs_waitlist' = pbs_waitlist ]_vars

\* two valid submissions were made and completed in tab1 alone (tab2 never
\* submitted, tab1 never had an invalid submission) and one entry is stored:
\* the second submission repeated the stored e-mail
C1_Witness ==
    /\ clock = 2
    /\ \A t \in Tabs : timers[t] = <<>> /\ running[t] = Idle
    /\ toast["tab1"] = "success" /\ focused["tab1"] = "none"
    /\ toast["tab2"] = "none"
    /\ Len(getStoredEmails(pbs_waitlist)) = 1

RowsFor(rows, id) == { k \in 1..Len(rows) : rows[k].id = id }

\* C2: a firing of handle_new_user for an id without a profile leaves exactly
\* one profiles row for the id, with access_status 'waitlist'; a firing for
\* an id that has a profile changes no row.
C2_HandleNewUserIdempotent ==
    [][ profOp'.op = "handle_new_user" =>
          /\ Cardinality(RowsFor(profiles', profOp'.id)) = 1
          /\ ~HasProfile(profiles, profOp'.id) =>
                \A k \in RowsFor(profiles', profOp'.id) :
                    profiles'[k].access_status = "waitlist"
          /\ HasProfile(profiles, profOp'.id) => profiles' = profiles ]_vars

\* the trigger has fired again for an id whose row it created earlier
C2_Witness ==
    /\ profOp.op = "handle_new_user" /\ profOp.existed
    /\ Cardinality(RowsFor(profiles, profOp.id)) = 1
    /\ \A k \in RowsFor(profiles, profOp.id) :
          /\ profiles[k].access_status = "waitlist"
          /\ profiles[k].email = EmailOf(profOp.id)

\* C3: a SELECT on catalysts by anon returns exactly the rows with
\* is_public = true, a SELECT by authenticated returns every row.
C3_CatalystsSelectByRole ==
    /\ Select(catalysts, catalysts_policies, "anon")
          = { r \in catalysts : r.is_public }
    /\ Select(catalysts, catalysts_policies, "authenticated") = catalysts

C3_Witness ==
    /\ \E r \in catalysts : r.is_public
    /\ \E r \in catalysts : ~r.is_public

\* C4: through every read path granted to anon (the table and the view
\* calendar_catalysts) an anonymous caller gets only rows with is_public.
C4_AnonSeesOnlyPublic ==
    /\ \A r \in Select(catalysts, catalysts_policies, "anon") : r.is_public
    /\ \A r \in calendar_catalysts(catalysts, CURRENT_DATE, "anon") :
          r.is_public

WithId(rows, id) == { r \in rows : r.id = id }

\* C5: an INSERT, UPDATE or DELETE on catalysts by anon or authenticated
\* leaves the table unchanged and does not succeed; the same statement by
\* service_role is never turned down by a policy and takes effect: the
\* inserted row is in the table unless its triple is taken, the updated row
\* carries the new value unless the new triple is taken, the deleted row is
\* gone.
C5_OnlyServiceRoleWrites ==
    [][ (dbOp'.tbl = "catalysts") =>
          /\ dbOp'.role \in {"anon", "authenticated"} =>
                /\ catalysts' = catalysts
                /\ dbOp'.res \in {"rls_violation", "no_rows"}
          /\ dbOp'.role = "service_role" =>
                /\ dbOp'.res # "rls_violation"
                /\ dbOp'.cmd = "INSERT" =>
                      /\ dbOp'.res \in {"ok", "unique_violation"}
                      /\ dbOp'.res = "unique_violation"
                            <=> \E r \in catalysts : Triple(r) = dbOp'.key
                      /\ \E r \in catalysts' : Triple(r) = dbOp'.key
                /\ dbOp'.cmd = "UPDATE" =>
                      /\ dbOp'.res = "no_rows"
                            <=> WithId(catalysts, dbOp'.key[1]) = {}
                      /\ dbOp'.res = "ok" =>
                            \E r \in catalysts' :
                               /\ r.id = dbOp'.key[1]
                               /\ r[dbOp'.key[2]] = dbOp'.key[3]
                      /\ dbOp'.res = "unique_violation" =>
                            catalysts' = catalysts
                /\ dbOp'.cmd = "DELETE" =>
                      /\ WithId(catalysts', dbOp'.key[1]) = {}
                      /\ dbOp'.res = "ok"
                            <=> WithId(catalysts, dbOp'.key[1]) # {} ]_vars

\* authenticated has just been turned down on a table that service_role
\* filled
C5_Witness ==
    /\ dbOp.tbl = "catalysts" /\ dbOp.role = "authenticated"
    /\ dbOp.cmd = "DELETE" /\ dbOp.res = "no_rows"
    /\ WithId(catalysts, dbOp.key[1]) # {}

Promoted(before, after) ==
    \E k \in 1..Len(before), j \in 1..Len(after) :
        /\ after[j].id = before[k].id
        /\ before[k].access_status = "waitlist"
        /\ after[j].access_status \in {"approved", "admin"}

\* C6: no operation of the repository (the trigger, the setup script when it
\* is run again, updateProfile) moves an existing profile from 'waitlist' to
\* 'approved' or 'admin'.
C6_NoAutomaticPromotion ==
    [][ profOp'.op \in {"handle_new_user", "setup_script", "updateProfile"}
          => ~Promoted(profiles, profiles') ]_vars

\* C7: every profiles row has access_status 'waitlist', 'approved' or 'admin'.
C7_AccessStatusEnumerated ==
    \A k \in 1..Len(profiles) :
        profiles[k].access_status \in {"waitlist", "approved", "admin"}

InSeq(x, seq) == \E j \in 1..Len(seq) : seq[j] = x

\* C8: approved_members holds exactly the profiles whose access_status is
\* 'admin' or 'approved'; a 'waitlist' profile is never in it.
C8_ApprovedMembersView ==
    LET view == approved_members(profiles) IN
    /\ \A k \in 1..Len(profiles) :
          InSeq(profiles[k], view)
             <=> profiles[k].access_status \in {"admin", "approved"}
    /\ \A j \in 1..Len(view) :
          InSeq(view[j], profiles) /\ view[j].access_status # "waitlist"
    /\ Len(view) <= Len(profiles)

\* the trigger has just created a waitlisted profile next to an approved one
C8_Witness ==
    /\ profOp.op = "handle_new_user" /\ ~profOp.existed
    /\ \E k \in 1..Len(profiles) : profiles[k].access_status = "waitlist"
    /\ \E k \in 1..Len(profiles) : profiles[k].access_status = "approved"
    /\ Len(approved_members(profiles)) = 1
    /\ Len(profiles) = 2

\* C9: every row calendar_catalysts returns has catalyst_date >= CURRENT_DATE
\* (days_until >= 0); a row dated today is returned, a row dated before today
\* is not.
C9_CalendarNeverPast ==
    \A role \in {"anon", "authenticated"} :
        LET view == calendar_catalysts(catalysts, CURRENT_DATE, role) IN
        /\ \A v \in view : v.catalyst_date >= CURRENT_DATE /\ v.days_until >= 0
        /\ \A r \in catalysts :
              /\ r.catalyst_date = CURRENT_DATE => \E v \in view : v.id = r.id
              /\ r.catalyst_date < CURRENT_DATE => ~\E v \in view : v.id = r.id

\* the date has just moved past a row that was returned the day before, and
\* another row is dated today
C9_Witness ==
    /\ dbOp.cmd = "NextDay"
    /\ \E r \in catalysts : r.catalyst_date = CURRENT_DATE - 1
    /\ \E r \in catalysts : r.catalyst_date = CURRENT_DATE

Unique(rows) ==
    \A r1, r2 \in rows : Triple(r1) = Triple(r2) => r1 = r2

\* C10: after every statement no two catalyst_research rows and no two
\* catalysts rows share (ticker, catalyst_date, catalyst_event); an INSERT
\* whose triple is the triple of an existing row fails and leaves the table
\* unchanged.
C10_UniqueTriple ==
    [][ /\ Unique(catalysts') /\ Unique(catalyst_research')
        /\ ( /\ dbOp'.cmd = "INSERT" /\ dbOp'.tbl = "catalysts"
             /\ \E r \in catalysts : Triple(r) = dbOp'.key )
           => dbOp'.res # "ok" /\ catalysts' = catalysts
        /\ ( /\ dbOp'.cmd = "INSERT" /\ dbOp'.tbl = "catalyst_research"
             /\ \E r \in catalyst_research : Triple(r) = dbOp'.key )
           => dbOp'.res # "ok" /\ catalyst_research' = catalyst_research
      ]_vars

\* a second catalyst_research row with the triple of the first was refused
C10_Witness ==
    /\ dbOp.cmd = "INSERT" /\ dbOp.tbl = "catalyst_research"
    /\ dbOp.res = "unique_violation"
    /\ \E r \in catalyst_research : Triple(r) = dbOp.key
    /\ catalyst_research_id_seq = 2

PairOps == {"signUp", "signIn", "resetPassword", "updatePassword",
            "getProfile", "updateProfile"}

C12_FetchedOnceAndCached ==
    [][ /\ newsLoads' <= 1
        /\ newsData # NoFeed =>
              newsData' = newsData /\ newsFetches' = newsFetches ]_vars

\* the init call whose end the last step was: it ran to its end without
\* awaiting (newsData was there), or its response.json() resolved
InitCompleted ==
    /\ newsOp.step \in {"call", "loaded"}
    /\ newsOp.fn = "init"
    /\ newsOp.container \in Containers
    /\ newsData # NoFeed
    /\ \A k \in newsCalls : k.id # newsOp.id

\* C13: when init completes for a ticker without articles in the loaded feed
\* (key absent, by_ticker missing, empty array) its container shows the empty
\* state, and no container ever shows a news list with zero items.
C13_NeverAnEmptyList ==
    /\ ( InitCompleted /\ Len(tickerNews(newsData.doc, newsOp.ticker)) = 0 )
          => container[newsOp.container] = renderEmpty(newsOp.ticker)
    /\ \A c \in Containers :
          container[c].view = "news" => Len(container[c].items) > 0

\* C14: an init whose fetch rejects or whose response.json() rejects ends
\* with its container showing the error state; that step leaves newsData as
\* it is (null, unless another call loaded it meanwhile), the init issued one
\* fetch and the failure issues none; an init called while newsData is null
\* issues a fetch.
C14_FailedInitShowsError ==
    [][ /\ ( newsOp'.step = "failed" /\ newsOp'.fn = "init" ) =>
              /\ container'[newsOp'.container] = [view |-> "error"]
              /\ newsData' = newsData
              /\ newsLoads = 0 => newsData' = NoFeed
              /\ newsOp'.fetches = 1
              /\ newsFetches' = newsFetches
              /\ \A k \in newsCalls' : k.id # newsOp'.id
        /\ ( /\ newsOp'.step = "call" /\ newsOp'.fn = "init"
             /\ newsOp'.container \in Containers
             /\ newsData = NoFeed ) =>
              /\ newsFetches' = newsFetches + 1
              /\ \E k \in newsCalls' : k.id = newsOp'.id /\ k.pc = "fetch" ]_vars

\* an init on news1 failed (its container shows the error state, newsData is
\* null) and a later init, on news2, has issued the second fetch
C14_Witness ==
    /\ container["news1"] = [view |-> "error"]
    /\ newsData = NoFeed
    /\ newsOp.step = "call" /\ newsOp.fn = "init" /\ newsOp.container = "news2"
    /\ newsFetches = 2
    /\ \E k \in newsCalls : k.id = newsOp.id /\ k.pc = "fetch"

Count(s, ch) == Cardinality({ k \in 1..Len(s) : s[k] = ch })

\* no white space, exactly one '@' with a character before it, and after the
\* '@' a '.' with a character on each side
WellFormedEmail(s) ==
    /\ \A k \in 1..Len(s) : s[k] \notin WS
    /\ Count(s, "@") = 1
    /\ LET at == CHOOSE k \in 1..Len(s) : s[k] = "@" IN
       /\ at > 1
       /\ \E d \in (at + 2)..(Len(s) - 1) : s[d] = "."

Last(seq) == seq[Len(seq)]

Range(seq) == { seq[k] : k \in 1..Len(seq) }

\* a submit event of tab t whose e-mail failed the validation: it set a toast
SubmittedInvalid(t) == clock' = clock + 1 /\ toastSeq'[t] = toastSeq[t] + 1

\* a submit event of tab t that set the timer of a simulated request
SubmittedValid(t) ==
    /\ clock' = clock + 1
    /\ Len(timers'[t]) = Len(timers[t]) + 1
    /\ Last(timers'[t]).kind \in {"submit", "founding"}

\* C15: a submit event of a waitlist form or of the founding-member form
\* sets the timer of a simulated request only for a well-formed e-mail; for
\* any other e-mail the handler shows the error toast, focuses the e-mail
\* input of the form and stops: no request timer is set (the tab's timers
\* grow by the two timers of the toast alone), pbs_waitlist and
\* pbs_founding_members keep their values, and every submit button keeps its
\* disabled flag and its label (an enabled button stays enabled).
C15_InvalidEmailStops ==
    [][ /\ clock' = clock + 1 =>
              \E t \in Tabs : SubmittedInvalid(t) \/ SubmittedValid(t)
        /\ \A t \in Tabs :
              SubmittedValid(t) => WellFormedEmail(Last(timers'[t]).email)
        /\ \A t \in Tabs :
              SubmittedInvalid(t) =>
                 /\ focused'[t] \in AllForms
                 /\ ~WellFormedEmail(trim(inputValue'[t][focused'[t]]))
                 /\ toast'[t] = "error"
                 /\ Last(toastDoc'[t]).type = "error"
                 /\ timers'[t] = timers[t] \o ToastTimers(toastSeq'[t])
                 /\ \A k \in 1..Len(timers'[t]) :
                       timers'[t][k].kind \in {"submit", "founding"}
                          => k <= Len(timers[t]) /\ timers'[t][k] = timers[t][k]
                 /\ pbs_waitlist' = pbs_waitlist
                 /\ pbs_founding_members' = pbs_founding_members
                 /\ btnDisabled' = btnDisabled
                 /\ btnHTML' = btnHTML
                 /\ running' = running ]_vars

\* the founding-member form was submitted with a@b while its button was
\* enabled: error toast, focus on its e-mail input, button still enabled with
\* its label, nothing stored and no request pending
C15_Witness ==
    /\ clock = 1
    /\ toast["tab1"] = "error" /\ focused["tab1"] = "founding"
    /\ inputValue["tab1"]["founding"] = <<"a", "@", "b">>
    /\ ~btnDisabled["tab1"]["founding"]
    /\ btnHTML["tab1"]["founding"] = FoundingLabel
    /\ pbs_founding_members = NoItem /\ pbs_waitlist = NoItem
    /\ \A k \in 1..Len(timers["tab1"]) :
          timers["tab1"][k].kind \notin {"submit", "founding"}

\* C16: nothing guards the read-modify-write of the stored lists: a timer
\* callback that passed its duplicate check writes the list it read itself
\* plus its own entry, whatever localStorage holds by then; with two tabs the
\* state C16_Witness is reachable.
C16_AppendsToOwnCopy ==
    [][ \A t \in Tabs :
          ( /\ running[t] # Idle
            /\ running'[t] = Idle
            /\ ~isDuplicate(running[t].storedEmails, running[t].email) )
          => IF running[t].state = "storeEmail"
             THEN /\ Len(getStoredEmails(pbs_waitlist'))
                        = Len(running[t].storedEmails) + 1
                  /\ SubSeq(getStoredEmails(pbs_waitlist'), 1,
                            Len(running[t].storedEmails))
                        = running[t].storedEmails
                  /\ Last(getStoredEmails(pbs_waitlist')).email
                        = running[t].email
             ELSE /\ Len(getStoredEmails(pbs_founding_members'))
                        = Len(running[t].storedEmails) + 1
                  /\ SubSeq(getStoredEmails(pbs_founding_members'), 1,
                            Len(running[t].storedEmails))
                        = running[t].storedEmails
                  /\ Last(getStoredEmails(pbs_founding_members')).email
                        = running[t].email ]_vars

\* both tabs read the empty waitlist before either wrote; one tab has passed
\* its duplicate check, written its copy and shown its success toast, the
\* other is still inside storeEmail, holds the empty list it read and a
\* different e-mail: it will pass its check and write its own copy
C16_Witness ==
    \E t1, t2 \in Tabs :
        /\ t1 # t2
        /\ running[t1] # Idle /\ running[t1].state = "storeEmail"
        /\ running[t1].storedEmails = <<>>
        /\ toast[t2] = "success"
        /\ Len(getStoredEmails(pbs_waitlist)) = 1
        /\ getStoredEmails(pbs_waitlist)[1].email # running[t1].email

InDocument(t, id) == \E k \in 1..Len(toastDoc[t]) : toastDoc[t][k].id = id

ToastPending(tm, kind, id) ==
    \E k \in 1..Len(tm) :
        tm[k].kind \in {"toastShow", "toastDismiss", "toastRemove"}
        /\ tm[k].kind = kind /\ tm[k].id = id

\* C20: at most one toast element is in the document at any time; when the
\* dismiss timer of a toast fires the element loses the class 'show' and its
\* fade timer is set, when the fade timer fires the element is out of the
\* document; and every toast in the document is eventually out of it (by its
\* fade timer, or earlier by a newer toast).
C20_ToastsTransient ==
    /\ [](\A t \in Tabs : Len(toastDoc[t]) <= 1)
    /\ [][ \A id \in 1..MaxClock :
             /\ ( /\ ToastPending(timers["tab1"], "toastDismiss", id)
                  /\ ~ToastPending(timers'["tab1"], "toastDismiss", id) )
                => /\ ToastPending(timers'["tab1"], "toastRemove", id)
                   /\ \A k \in 1..Len(toastDoc'["tab1"]) :
                         toastDoc'["tab1"][k].id = id
                            => ~toastDoc'["tab1"][k].show
             /\ ( /\ ToastPending(timers["tab1"], "toastRemove", id)
                  /\ ~ToastPending(timers'["tab1"], "toastRemove", id) )
                => \A k \in 1..Len(toastDoc'["tab1"]) :
                      toastDoc'["tab1"][k].id # id ]_vars
    /\ \A id \in 1..MaxClock :
          InDocument("tab1", id) ~> ~InDocument("tab1", id)

\* the second toast of the tab is in the document, with the class 'show',
\* after it replaced the first, whose dismiss timer is still pending
C20_Witness ==
    /\ Len(toastDoc["tab1"]) = 1
    /\ toastDoc["tab1"][1].id = 2 /\ toastDoc["tab1"][1].show
    /\ ToastPending(timers["tab1"], "toastDismiss", 1)

\* C17: with s the whole seconds elapsed, timeAgo returns 'just now' for
\* s < 60, floor(s/60) 'm ago' for 60 <= s < 3600, floor(s/3600) 'h ago' for
\* 3600 <= s < 86400 and floor(s/86400) 'd ago' from there on; 0 gives
\* 'just now', 90 '1m ago', 7200 '2h ago', and 60, 3600 and 86400 give
\* '1m ago', '1h ago' and '1d ago'.
C17_TimeAgoBuckets ==
    call.fn = "timeAgo" =>
        LET s == call.arg \div 1000 IN
        /\ s < 60 => call.out = [text |-> "just now"]
        /\ (60 <= s /\ s < 3600) =>
              call.out = [n |-> s \div 60, unit |-> "m ago"]
        /\ (3600 <= s /\ s < 86400) =>
              call.out = [n |-> s \div 3600, unit |-> "h ago"]
        /\ 86400 <= s => call.out = [n |-> s \div 86400, unit |-> "d ago"]
        /\ s = 0 => call.out = [text |-> "just now"]
        /\ s = 90 => call.out = [n |-> 1, unit |-> "m ago"]
        /\ s = 7200 => call.out = [n |-> 2, unit |-> "h ago"]
        /\ s = 60 => call.out = [n |-> 1, unit |-> "m ago"]
        /\ s = 3600 => call.out = [n |-> 1, unit |-> "h ago"]
        /\ s = 86400 => call.out = [n |-> 1, unit |-> "d ago"]

\* timeAgo was called 3600 seconds after the timestamp and said '1h ago'
C17_Witness ==
    /\ call.fn = "timeAgo" /\ call.arg = 3600000
    /\ call.out = [n |-> 1, unit |-> "h ago"]

Has(item, c) == item.hasCategories /\ c \in Range(item.categories)

\* C18: the border class of an item is red when its sentiment is 'negative',
\* otherwise green when categories contains 'fda', otherwise blue when it
\* contains 'clinical', otherwise gray; a negative item with 'fda' or
\* 'clinical' is red and an item with both 'fda' and 'clinical' is green
\* unless it is negative.
C18_BorderPrecedence ==
    call.fn = "borderClass" =>
        LET item == call.arg IN
        /\ call.out = "border-red-500" <=> item.sentiment = "negative"
        /\ call.out = "border-green-500" <=>
              item.sentiment # "negative" /\ Has(item, "fda")
        /\ call.out = "border-blue-500" <=>
              /\ item.sentiment # "negative" /\ ~Has(item, "fda")
              /\ Has(item, "clinical")
        /\ call.out = "border-gray-700" <=>
              /\ item.sentiment # "negative" /\ ~Has(item, "fda")
              /\ ~Has(item, "clinical")

\* a negative item with the categories clinical and fda got the red border
C18_Witness ==
    /\ call.fn = "borderClass"
    /\ call.arg.sentiment = "negative"
    /\ call.arg.categories = <<"clinical", "fda">>
    /\ call.out = "border-red-500"

\* C19: isValidEmail(s) is true exactly when s has no white space, exactly
\* one '@' with at least one character before it, and after the '@' a '.'
\* with at least one character on each side.
C19_IsValidEmailIff ==
    call.fn = "isValidEmail" => call.out = WellFormedEmail(call.arg)

\* isValidEmail accepted a@a.a
C19_Witness ==
    /\ call.fn = "isValidEmail"
    /\ call.arg = <<"a", "@", "a", ".", "a">>
    /\ call.out = TRUE

Emails(list) == { list[k].email : k \in 1..Len(list) }

\* C21: the e-mail of a waitlist submission is in the list stored under
\* pbs_waitlist when its success toast is shown, and an e-mail that is in the
\* stored list stays in it in every later state, also while another tab
\* sharing the storage is submitting.
C21_NoAcknowledgedEntryLost ==
    [][ /\ \A t \in Tabs :
              ( /\ running[t] # Idle /\ running[t].state = "storeEmail"
                /\ running'[t] = Idle /\ toast'[t] = "success" )
              => running[t].email \in Emails(getStoredEmails(pbs_waitlist'))
        /\ Emails(getStoredEmails(pbs_waitlist))
              \subseteq Emails(getStoredEmails(pbs_waitlist')) ]_vars

\* C22: once every call has completed, a container on which init was called
\* shows the result of the init call issued last for it: it is not left in
\* the loading state, and the empty state or the news list it shows is that
\* of the ticker of that call, in whatever order the fetches resolved.
C22_LastIssuedCallWins ==
    newsCalls = {} =>
        \A c \in Containers :
            newsIssued[c] # "none" =>
                /\ container[c].view \in {"empty", "news", "error"}
                /\ container[c].view \in {"empty", "news"}
                      => container[c].ticker = newsIssued[c]

\* a simulated request of form f of tab t is pending: its timer is set, or
\* its timer callback is running
RequestPending(t, f) ==
    \/ \E k \in 1..Len(timers[t]) :
          timers[t][k].kind \in {"submit", "founding"} /\ timers[t][k].form = f
    \/ running[t] # Idle /\ running[t].form = f

\* C23: in every state, the submit button of a form with a pending request
\* is disabled, and the submit button of a form without one is enabled and
\* shows its original label; submit events may arrive while an earlier
\* submission of the same form is pending.
C23_ButtonFollowsPendingRequest ==
    \A t \in Tabs, f \in AllForms :
        IF RequestPending(t, f)
        THEN btnDisabled[t][f]
        ELSE ~btnDisabled[t][f] /\ btnHTML[t][f] = LabelOf(f)

\* C24: starting from a hidden menu with aria-expanded 'false', after any
\* sequence of clicks on the menu button and on the links of the menu, the
\* button's aria-expanded is 'true' exactly when the menu does not have the
\* class 'hidden'.
C24_AriaExpandedFollowsMenu ==
    (ariaExpanded = "true") <=> ("hidden" \notin menuClasses)

====
